---- MODULE Spec2Model ----
(***************************************************************************)
(* bbswitch (Zephyrus G14 variant): the discrete-GPU power state machine   *)
(* of src/bbswitch.c.  Every handler (procfs write/read, PM notifier,      *)
(* module init/exit) is one atomic action; the body of each handler is a   *)
(* composition of operators over a record m that carries the globals of    *)
(* the C file, the hardware, and the counters of the current call.         *)
(***************************************************************************)
EXTENDS Integers, Sequences, FiniteSets, TLC

VARIABLES
    module,                       \* "unloaded" | "loaded" | "oops"
    fwOn,                         \* firmware power status of the card (SGST > 0)
    onBus,                        \* pci_get_device(vendor, device) finds the card
    driver,                       \* pdev->driver of the card on the bus is bound
    has_bridge,                   \* pdev->bus && pdev->bus->self
    fwFaulty,                     \* firmware control methods may fail to evaluate
    dis_dev,                      \* static struct pci_dev *dis_dev
    dis_handle,                   \* static acpi_handle dis_handle
    dis_before_suspend_disabled,  \* static int dis_before_suspend_disabled
    bridge_refs,                  \* pm_runtime gets minus puts made by the module
    last,                         \* what the most recent handler call did
    probe,                        \* inputs and answers of the last capability probe
    inflight                      \* position of each handler call in progress

vars ==
    << module, fwOn, onBus, driver, has_bridge, fwFaulty, dis_dev, dis_handle,
       dis_before_suspend_disabled, bridge_refs, last, probe, inflight >>

(***************************************************************************)
(* Bounds of the model.                                                    *)
(***************************************************************************)
MaxDelay ==
    6

MaxRefs ==
    2

(***************************************************************************)
(* Program constants.                                                      *)
(***************************************************************************)
CARD_UNCHANGED ==
    -1

CARD_OFF ==
    0

CARD_ON ==
    1

OnPollLimit ==
    4

GetPollLimit ==
    4

NULL ==
    "NULL"

Pdev ==
    "pdev"

NoStatus ==
    CARD_UNCHANGED - 1

\* Whether the _ON or _OFF evaluation of a call takes effect.
FwAnswers ==
    IF fwFaulty THEN BOOLEAN ELSE {TRUE}

\* Bus lookups after which the card becomes visible once firmware has it
\* powered; -1: it does not become visible during this call.
Delays ==
    (-1) .. MaxDelay

(***************************************************************************)
(* The record a handler works on.                                          *)
(***************************************************************************)
Enter(d, fwOk) ==
    [ fwOn |-> fwOn, onBus |-> onBus, driver |-> driver,
      dis_dev |-> dis_dev, dbsd |-> dis_before_suspend_disabled,
      refs |-> bridge_refs, oops |-> FALSE, ret |-> 0,
      delay |-> d, fwOk |-> fwOk,
      gets |-> 0, puts |-> 0, offCalls |-> 0, onCalls |-> 0,
      polls |-> 0, gpolls |-> 0,
      offInvoked |-> FALSE, offStatus |-> NoStatus, offDriver |-> FALSE,
      onInvoked |-> FALSE, onStatus |-> NoStatus,
      out |-> "",
      sgstOk |-> TRUE, sgstCalls |-> 0, nullbuf |-> FALSE,
      rc |-> 0, warns |-> 0 ]

\* A handler call during which the SGST evaluation fails.
EnterSgstFail(d, fwOk) ==
    [Enter(d, fwOk) EXCEPT !.sgstOk = FALSE]

\* The bus as seen by one pci_get_device() lookup: a powered card that is
\* not yet enumerated shows up when its delay has elapsed.
pci_get_device(m) ==
    IF m.onBus \/ ~m.fwOn THEN m
    ELSE IF m.delay = 0 THEN [m EXCEPT !.onBus = TRUE, !.driver = FALSE]
    ELSE IF m.delay > 0 THEN [m EXCEPT !.delay = @ - 1]
    ELSE m

get_dis_dev(m) ==
    LET b == pci_get_device(m)
    IN  IF b.onBus THEN [b EXCEPT !.dis_dev = Pdev] ELSE b

\* A read through dis_dev (dis_dev->driver, dis_dev->bus): a NULL pointer
\* dereference when dis_dev is NULL.
deref_dis_dev(m) ==
    IF m.dis_dev = NULL THEN [m EXCEPT !.oops = TRUE] ELSE m

\* err is assigned and dropped; the function returns 0 whatever happened.
bbswitch_acpi_off(m) ==
    LET c == [m EXCEPT !.offCalls = @ + 1, !.rc = 0]
    IN  IF m.fwOk
        THEN [c EXCEPT !.fwOn = FALSE, !.onBus = FALSE, !.driver = FALSE]
        ELSE c

bbswitch_acpi_on(m) ==
    LET c == [m EXCEPT !.onCalls = @ + 1, !.rc = 0]
    IN  IF m.fwOk THEN [c EXCEPT !.fwOn = TRUE] ELSE c

\* pr_warn on the failure of a firmware control method.
pr_warn(m) ==
    [m EXCEPT !.warns = @ + 1]

\* acpi_evaluate_object(hnd, "SGST", NULL, &buffer): a failed evaluation
\* leaves buffer.pointer NULL.
acpi_evaluate_sgst(m) ==
    [m EXCEPT !.sgstCalls = @ + 1]

\* err is not looked at: buffer.pointer is read whatever the evaluation
\* returned, a NULL pointer dereference when it failed.
is_card_disabled(m) ==
    IF m.oops THEN m
    ELSE LET e == acpi_evaluate_sgst(m)
         IN  IF ~e.sgstOk THEN [e EXCEPT !.oops = TRUE, !.nullbuf = TRUE]
             ELSE IF e.fwOn
             THEN LET g == get_dis_dev(e)
                  IN  [g EXCEPT !.ret = IF g.dis_dev = NULL THEN -1 ELSE 0]
             ELSE [e EXCEPT !.ret = 1]

pm_runtime_get_sync(m) ==
    [m EXCEPT !.refs = @ + 1, !.gets = @ + 1]

pm_runtime_put_sync(m) ==
    [m EXCEPT !.refs = @ - 1, !.puts = @ + 1]

\* bbswitch_off without the bound-driver test.
bbswitch_off_nodriver(m) ==
    IF m.oops THEN m
    ELSE LET s == is_card_disabled(m)
             t == [s EXCEPT !.offInvoked = TRUE, !.offStatus = s.ret,
                            !.offDriver = (s.dis_dev # NULL /\ s.driver)]
         IN  IF s.ret = 1 THEN t
             ELSE LET r == deref_dis_dev(t)
                  IN  IF r.oops THEN r
                      ELSE LET c == bbswitch_acpi_off(r)
                               w == IF c.rc # 0 THEN pr_warn(c) ELSE c
                           IN  [w EXCEPT !.dis_dev = NULL]

\* bbswitch_off that keeps the stale device pointer after _OFF.
bbswitch_off_keepdev(m) ==
    IF m.oops THEN m
    ELSE LET s == is_card_disabled(m)
             t == [s EXCEPT !.offInvoked = TRUE, !.offStatus = s.ret,
                            !.offDriver = (s.dis_dev # NULL /\ s.driver)]
         IN  IF s.ret = 1 THEN t
             ELSE LET r == deref_dis_dev(t)
                  IN  IF r.oops THEN r
                      ELSE IF r.driver THEN r
                      ELSE LET c == bbswitch_acpi_off(r)
                           IN  IF c.rc # 0 THEN pr_warn(c) ELSE c

bbswitch_off(m) ==
    IF m.oops THEN m
    ELSE LET s == is_card_disabled(m)
             t == [s EXCEPT !.offInvoked = TRUE, !.offStatus = s.ret,
                            !.offDriver = (s.dis_dev # NULL /\ s.driver)]
         IN  IF s.ret = 1 THEN t
             ELSE LET r == deref_dis_dev(t)
                  IN  IF r.oops THEN r
                      ELSE IF r.driver THEN r
                      ELSE LET c == bbswitch_acpi_off(r)
                               w == IF c.rc # 0 THEN pr_warn(c) ELSE c
                           IN  [w EXCEPT !.dis_dev = NULL]

\* The loop of bbswitch_on giving up one attempt early (i >= 4).
RECURSIVE on_poll_short(_, _)
on_poll_short(m, i) ==
    IF m.dis_dev # NULL THEN m
    ELSE LET g == get_dis_dev([m EXCEPT !.polls = @ + 1])
         IN  IF i + 1 >= OnPollLimit THEN g ELSE on_poll_short(g, i + 1)

\* The loop of bbswitch_on tested only by its counter (for (i = 0; i <= 4; i++)).
RECURSIVE on_poll_all(_, _)
on_poll_all(m, i) ==
    LET g == get_dis_dev([m EXCEPT !.polls = @ + 1])
    IN  IF i + 1 > OnPollLimit THEN g ELSE on_poll_all(g, i + 1)

\* while (dis_dev == NULL) { msleep(500); i++; get_dis_dev(); if (i > 4) break; }
RECURSIVE on_poll(_, _)
on_poll(m, i) ==
    IF m.dis_dev # NULL THEN m
    ELSE LET g == get_dis_dev([m EXCEPT !.polls = @ + 1])
         IN  IF i + 1 > OnPollLimit THEN g ELSE on_poll(g, i + 1)

\* bbswitch_on that evaluates _ON without asking for the status first.
bbswitch_on_always(m) ==
    IF m.oops THEN m
    ELSE LET s == is_card_disabled(m)
             t == [s EXCEPT !.onInvoked = TRUE, !.onStatus = s.ret]
             c == bbswitch_acpi_on(t)
             w == IF c.rc # 0 THEN pr_warn(c) ELSE c
         IN  on_poll(w, 0)

bbswitch_on(m) ==
    IF m.oops THEN m
    ELSE LET s == is_card_disabled(m)
             t == [s EXCEPT !.onInvoked = TRUE, !.onStatus = s.ret]
         IN  IF s.ret < 1 THEN t
             ELSE LET c == bbswitch_acpi_on(t)
                      w == IF c.rc # 0 THEN pr_warn(c) ELSE c
                  IN  on_poll(w, 0)

\* The polling loop of dis_dev_get; it ends with dis_dev still NULL exactly
\* when the function returns from inside the loop.
RECURSIVE get_poll(_, _)
get_poll(m, i) ==
    IF m.dis_dev # NULL THEN m
    ELSE LET g == get_dis_dev([m EXCEPT !.gpolls = @ + 1])
         IN  IF i + 1 > GetPollLimit THEN g ELSE get_poll(g, i + 1)

bridge_of(m) ==
    deref_dis_dev(m)

\* dis_dev_get that relocates the card but takes no bridge reference.
dis_dev_get_noref(m) ==
    IF m.oops THEN m
    ELSE LET s == is_card_disabled(m)
         IN  IF s.ret < 1
             THEN LET p == get_poll(s, 0)
                  IN  IF p.dis_dev = NULL THEN p ELSE bridge_of(p)
             ELSE s

dis_dev_get(m) ==
    IF m.oops THEN m
    ELSE LET s == is_card_disabled(m)
         IN  IF s.ret < 1
             THEN LET p == get_poll(s, 0)
                  IN  IF p.dis_dev = NULL THEN p
                      ELSE LET b == bridge_of(p)
                           IN  IF ~b.oops /\ has_bridge
                               THEN pm_runtime_get_sync(b) ELSE b
             ELSE s

\* dis_dev_put that releases only a reference taken earlier in the same call.
dis_dev_put_own(m) ==
    IF m.oops THEN m
    ELSE LET s == is_card_disabled(m)
         IN  IF s.ret = 0 /\ s.gets > 0
             THEN LET b == bridge_of(s)
                  IN  IF ~b.oops /\ has_bridge
                      THEN pm_runtime_put_sync(b) ELSE b
             ELSE s

dis_dev_put(m) ==
    IF m.oops THEN m
    ELSE LET s == is_card_disabled(m)
         IN  IF s.ret = 0
             THEN LET b == bridge_of(s)
                  IN  IF ~b.oops /\ has_bridge
                      THEN pm_runtime_put_sync(b) ELSE b
             ELSE s

Commands ==
    {"OFF", "ON", "other"}

bbswitch_proc_write(m, cmd) ==
    LET g == dis_dev_get(m)
        a == IF cmd = "OFF" THEN bbswitch_off(g) ELSE g
        b == IF cmd = "ON" THEN bbswitch_on(a) ELSE a
    IN  dis_dev_put(b)

\* bbswitch_proc_show printing OFF for every status but on (!= 0).
bbswitch_proc_show_ne(m) ==
    LET g == dis_dev_get(m)
        s == is_card_disabled(g)
        o == IF s.oops THEN s
             ELSE [s EXCEPT !.out = IF s.ret # 0 THEN "OFF" ELSE "ON"]
    IN  dis_dev_put(o)

bbswitch_proc_show(m) ==
    LET g == dis_dev_get(m)
        s == is_card_disabled(g)
        o == IF s.oops THEN s
             ELSE [s EXCEPT !.out = IF s.ret > 0 THEN "OFF" ELSE "ON"]
    IN  dis_dev_put(o)

PrepareEvents ==
    {"PM_HIBERNATION_PREPARE", "PM_SUSPEND_PREPARE"}

PostEvents ==
    {"PM_POST_HIBERNATION", "PM_POST_SUSPEND", "PM_POST_RESTORE"}

PmEvents ==
    PrepareEvents \cup PostEvents \cup {"PM_RESTORE_PREPARE"}

\* The notifier with PM_RESTORE_PREPARE handled like the other prepare events.
bbswitch_pm_handler_restore(m, event_type) ==
    IF event_type \in PrepareEvents \cup {"PM_RESTORE_PREPARE"}
    THEN LET g == dis_dev_get(m)
             s == is_card_disabled(g)
             r == IF s.oops THEN s ELSE [s EXCEPT !.dbsd = s.ret]
         IN  dis_dev_put(bbswitch_on(r))
    ELSE IF event_type \in PostEvents
    THEN IF m.dbsd # 0
         THEN dis_dev_put(bbswitch_off(dis_dev_get(m)))
         ELSE m
    ELSE m

bbswitch_pm_handler(m, event_type) ==
    IF event_type \in PrepareEvents
    THEN LET g == dis_dev_get(m)
             s == is_card_disabled(g)
             r == IF s.oops THEN s ELSE [s EXCEPT !.dbsd = s.ret]
         IN  dis_dev_put(bbswitch_on(r))
    ELSE IF event_type \in PostEvents
    THEN IF m.dbsd # 0
         THEN dis_dev_put(bbswitch_off(dis_dev_get(m)))
         ELSE m
    ELSE m

LoadStates ==
    {CARD_UNCHANGED, CARD_OFF, CARD_ON}

\* bbswitch_init after a successful device scan and _DSM selection: the
\* part of the function that touches the power state.
bbswitch_init(m, load_state) ==
    LET g == dis_dev_get(m)
        s == is_card_disabled(g)
        e == IF ~s.oops /\ s.ret < 1 THEN deref_dis_dev(s) ELSE s
        a == IF load_state = CARD_ON THEN bbswitch_on(e)
             ELSE IF load_state = CARD_OFF THEN bbswitch_off(e)
             ELSE e
    IN  dis_dev_put(is_card_disabled(a))

bbswitch_exit(m, unload_state) ==
    LET g == dis_dev_get(m)
        a == IF unload_state = CARD_ON THEN bbswitch_on(g)
             ELSE IF unload_state = CARD_OFF THEN bbswitch_off(g)
             ELSE g
    IN  dis_dev_put(is_card_disabled(a))

(***************************************************************************)
(* The _DSM invoker and the capability probe.  A uint32_t is the pair of   *)
(* its 16-bit halves [hi, lo]; a firmware integer (64 bits) also carries   *)
(* its upper 32 bits.                                                      *)
(***************************************************************************)
Handles ==
    {"dis", "igd"}

Muids ==
    {"acpi_optimus_dsm_muid", "acpi_nvidia_dsm_muid"}

U32(hi, lo) ==
    [hi |-> hi, lo |-> lo]

IntObj(top, hi, lo) ==
    [kind |-> "int", top |-> top, hi |-> hi, lo |-> lo]

BufObj(bytes) ==
    [kind |-> "buf", bytes |-> bytes]

\* What evaluating _DSM function 0 on a handle may give back.
DsmAnswers ==
    { [kind |-> "fail"], [kind |-> "other"],
      IntObj(0, 0, 0), IntObj(0, 0, 1), IntObj(0, 0, 8), IntObj(0, 0, 9),
      IntObj(0, 1024, 1), IntObj(0, 1024, 0), IntObj(0, 32768, 1),
      IntObj(1, 0, 0), IntObj(65535, 65535, 65535),
      BufObj(<<1, 0, 0, 4>>), BufObj(<<9, 0, 0, 0>>), BufObj(<<255, 255>>),
      BufObj(<<255, 255, 255, 255, 0, 0, 0, 0>>) }

RECURSIVE BitAnd(_, _)
BitAnd(a, b) ==
    IF a = 0 \/ b = 0 THEN 0
    ELSE (a % 2) * (b % 2) + 2 * BitAnd(a \div 2, b \div 2)

And32(a, b) ==
    U32(BitAnd(a.hi, b.hi), BitAnd(a.lo, b.lo))

\* 1 << n for 0 <= n <= 31.
Shl1(n) ==
    IF n < 16 THEN U32(0, 2 ^ n) ELSE U32(2 ^ (n - 16), 0)

NonZero(a) ==
    a.hi # 0 \/ a.lo # 0

\* acpi_evaluate_object(handle, "_DSM", ...) with function index func; the
\* firmware table of the machine answers the function-0 query of each
\* handle and UUID.
acpi_evaluate_dsm(handle, muid, revid, func) ==
    IF func = 0 THEN probe.fw[handle][muid] ELSE [kind |-> "other"]

\* acpi_call_dsm decoding a 4-byte buffer most significant byte first.
acpi_call_dsm_be(handle, muid, revid, func, args, result) ==
    LET obj == acpi_evaluate_dsm(handle, muid, revid, func)
    IN  IF obj.kind = "fail" THEN [err |-> 1, result |-> result]
        ELSE IF obj.kind = "int"
        THEN [err |-> 0, result |-> U32(obj.hi, obj.lo)]
        ELSE IF obj.kind = "buf" /\ Len(obj.bytes) = 4
        THEN [err |-> 0,
              result |-> U32(obj.bytes[2] + 256 * obj.bytes[1],
                             obj.bytes[4] + 256 * obj.bytes[3])]
        ELSE [err |-> 0, result |-> result]

\* Returns [err, result]: result is the caller's slot after the call.  The
\* uint32_t slot keeps the low 32 bits (hi, lo) of a 64-bit integer object.
acpi_call_dsm(handle, muid, revid, func, args, result) ==
    LET obj == acpi_evaluate_dsm(handle, muid, revid, func)
    IN  IF obj.kind = "fail" THEN [err |-> 1, result |-> result]
        ELSE IF obj.kind = "int"
        THEN [err |-> 0, result |-> U32(obj.hi, obj.lo)]
        ELSE IF obj.kind = "buf" /\ Len(obj.bytes) = 4
        THEN [err |-> 0,
              result |-> U32(obj.bytes[3] + 256 * obj.bytes[4],
                             obj.bytes[1] + 256 * obj.bytes[2])]
        ELSE [err |-> 0, result |-> result]

\* has_dsm_func that tests only bit sfnc of the mask.
has_dsm_func_nobit0(muid, revid, sfnc) ==
    LET r == acpi_call_dsm(dis_handle, muid, revid, 0, <<>>, U32(0, 0))
    IN  IF r.err # 0 THEN 0
        ELSE IF NonZero(And32(r.result, Shl1(sfnc))) THEN 1 ELSE 0

has_dsm_func(muid, revid, sfnc) ==
    LET r == acpi_call_dsm(dis_handle, muid, revid, 0, <<>>, U32(0, 0))
    IN  IF r.err # 0 THEN 0
        ELSE IF NonZero(And32(r.result, U32(0, 1)))
                /\ NonZero(And32(r.result, Shl1(sfnc)))
             THEN 1 ELSE 0

handle_has_dsm_func(handle, muid, revid, sfnc) ==
    LET r == acpi_call_dsm(handle, muid, revid, 0, <<>>, U32(0, 0))
    IN  IF r.err # 0 THEN 0
        ELSE IF NonZero(And32(r.result, U32(0, 1)))
                /\ NonZero(And32(r.result, Shl1(sfnc)))
             THEN 1 ELSE 0

\* Module initialisation up to the creation of the /proc entry: the scan of
\* the PCI devices and the choice of the _DSM interface.
DSM_TYPE_UNSUPPORTED == 0
DSM_TYPE_OPTIMUS == 1
DSM_TYPE_NVIDIA == 2
ENODEV == 19
ENOMEM == 12

\* The revisions and function numbers the probes ask for.
OptimusFunc == 26
OptimusRev == 256
NvidiaRev == 258
NvidiaFunc == 3

Optimus == "acpi_optimus_dsm_muid"
Nvidia == "acpi_nvidia_dsm_muid"

\* has_dsm_func called while the global dis_handle holds dh.
has_dsm_func_at(dh, muid, revid, sfnc) ==
    LET r == acpi_call_dsm(dh, muid, revid, 0, <<>>, U32(0, 0))
    IN  IF r.err # 0 THEN 0
        ELSE IF NonZero(And32(r.result, U32(0, 1)))
                /\ NonZero(And32(r.result, Shl1(sfnc)))
             THEN 1 ELSE 0

\* One pass of the while loop over the PCI devices, for the device pdev.
scan_device(st, pdev) ==
    IF pdev.class \notin {"PCI_CLASS_DISPLAY_VGA", "PCI_CLASS_DISPLAY_3D"}
    THEN st
    ELSE IF pdev.handle = NULL THEN st
    ELSE IF pdev.vendor = "PCI_VENDOR_ID_INTEL"
    THEN [st EXCEPT !.igd_handle = pdev.handle]
    ELSE IF handle_has_dsm_func(pdev.handle, Optimus, OptimusRev,
                                OptimusFunc) # 0
    THEN [st EXCEPT !.dis_dev = Pdev, !.dis_handle = pdev.handle]
    ELSE [st EXCEPT !.igd_handle = pdev.handle]

RECURSIVE bbswitch_init_scan(_, _, _)
bbswitch_init_scan(st, devs, i) ==
    IF i > Len(devs) THEN st
    ELSE bbswitch_init_scan(scan_device(st, devs[i]), devs, i + 1)

\* The choice of the interface, with the legacy probe made first.
bbswitch_init_dsm_legacy_first(st, skip) ==
    IF has_dsm_func_at(st.dis_handle, Nvidia, NvidiaRev, NvidiaFunc) # 0
    THEN [st EXCEPT !.dsm_type = DSM_TYPE_NVIDIA]
    ELSE IF ~skip /\ has_dsm_func_at(st.dis_handle, Optimus, OptimusRev,
                                     OptimusFunc) # 0
    THEN [st EXCEPT !.dsm_type = DSM_TYPE_OPTIMUS]
    ELSE LET f == [st EXCEPT !.dis_handle = st.igd_handle]
         IN  IF f.dis_handle # NULL
                /\ has_dsm_func_at(f.dis_handle, Nvidia, NvidiaRev,
                                   NvidiaFunc) # 0
             THEN [f EXCEPT !.dsm_type = DSM_TYPE_NVIDIA]
             ELSE [f EXCEPT !.ret = 0 - ENODEV]

\* The choice of the interface once a discrete card has been found.
bbswitch_init_dsm(st, skip) ==
    IF ~skip /\ has_dsm_func_at(st.dis_handle, Optimus, OptimusRev,
                                OptimusFunc) # 0
    THEN [st EXCEPT !.dsm_type = DSM_TYPE_OPTIMUS]
    ELSE IF has_dsm_func_at(st.dis_handle, Nvidia, NvidiaRev, NvidiaFunc) # 0
    THEN [st EXCEPT !.dsm_type = DSM_TYPE_NVIDIA]
    ELSE LET f == [st EXCEPT !.dis_handle = st.igd_handle]
         IN  IF f.dis_handle # NULL
                /\ has_dsm_func_at(f.dis_handle, Nvidia, NvidiaRev,
                                   NvidiaFunc) # 0
             THEN [f EXCEPT !.dsm_type = DSM_TYPE_NVIDIA]
             ELSE [f EXCEPT !.ret = 0 - ENODEV]

\* bbswitch_init from its entry to the creation of the /proc entry.
\* scan_handle keeps the handle the scan stored in dis_handle.
bbswitch_init_probe(devs, skip, procOk) ==
    LET st0 == [ dis_dev |-> NULL, dis_handle |-> NULL, igd_handle |-> NULL,
                 dsm_type |-> DSM_TYPE_UNSUPPORTED, ret |-> 0,
                 proc_entry |-> FALSE, scan_handle |-> NULL ]
        sc == bbswitch_init_scan(st0, devs, 1)
        s1 == [sc EXCEPT !.scan_handle = sc.dis_handle]
    IN  IF s1.dis_dev = NULL THEN [s1 EXCEPT !.ret = 0 - ENODEV]
        ELSE LET d == bbswitch_init_dsm(s1, skip)
             IN  IF d.ret # 0 THEN d
                 ELSE IF ~procOk THEN [d EXCEPT !.ret = 0 - ENOMEM]
                 ELSE [d EXCEPT !.proc_entry = TRUE]

(***************************************************************************)
(* The state machine.                                                      *)
(***************************************************************************)
NoCall ==
    [ op |-> "none", arg |-> "", delay |-> 0, pre |-> NoStatus,
      gets |-> 0, puts |-> 0, offCalls |-> 0, onCalls |-> 0,
      polls |-> 0, gpolls |-> 0,
      offInvoked |-> FALSE, offStatus |-> NoStatus, offDriver |-> FALSE,
      onInvoked |-> FALSE, onStatus |-> NoStatus,
      out |-> "", post |-> NoStatus, oops |-> FALSE,
      fwOk |-> TRUE, env |-> FALSE,
      sgstOk |-> TRUE, sgstCalls |-> 0, nullbuf |-> FALSE, warns |-> 0,
      armed |-> FALSE, base |-> NoStatus ]

\* Handler calls that may be in progress at once, none of them started.
NumThreads == 2

Threads ==
    1 .. NumThreads

NoThreads ==
    [t \in Threads |-> [pc |-> "idle", cmd |-> ""]]

NoProbe ==
    [ done |-> FALSE ]

\* The status a query made right now would return (its SGST evaluation
\* succeeding).
StatusOf(m) ==
    IF m.oops THEN NoStatus
    ELSE is_card_disabled([m EXCEPT !.sgstOk = TRUE]).ret

CallRecord(m0, m, op, arg) ==
    [ op |-> op, arg |-> arg, delay |-> m0.delay, pre |-> StatusOf(m0),
      gets |-> m.gets, puts |-> m.puts,
      offCalls |-> m.offCalls, onCalls |-> m.onCalls,
      polls |-> m.polls, gpolls |-> m.gpolls,
      offInvoked |-> m.offInvoked, offStatus |-> m.offStatus,
      offDriver |-> m.offDriver,
      onInvoked |-> m.onInvoked, onStatus |-> m.onStatus,
      out |-> m.out, post |-> StatusOf(m), oops |-> m.oops,
      fwOk |-> m.fwOk, env |-> FALSE,
      sgstOk |-> m.sgstOk, sgstCalls |-> m.sgstCalls,
      nullbuf |-> m.nullbuf, warns |-> m.warns,
      armed |-> IF op = "pm" /\ arg \in PrepareEvents THEN TRUE
                ELSE IF op = "init" \/ (op = "pm" /\ arg \in PostEvents)
                THEN FALSE
                ELSE last.armed,
      base |-> IF op = "write" /\ arg = "OFF" /\ StatusOf(m0) = 0 /\ ~m.fwOn
               THEN m0.refs
               ELSE IF /\ op = "show" \/ (op = "write" /\ arg = "ON")
                       /\ last.op = "show" \/ (last.op = "write" /\ last.arg = "OFF")
               THEN last.base
               ELSE NoStatus ]

\* The globals and the hardware after a handler has returned (or died).
Return(m0, m, op, arg, mod) ==
    /\ module' = IF m.oops THEN "oops" ELSE mod
    /\ fwOn' = m.fwOn
    /\ onBus' = m.onBus
    /\ driver' = m.driver
    /\ dis_dev' = m.dis_dev
    /\ dis_before_suspend_disabled' = m.dbsd
    /\ bridge_refs' = m.refs
    /\ last' = CallRecord(m0, m, op, arg)
    /\ UNCHANGED << has_bridge, fwFaulty, dis_handle, probe, inflight >>

InBounds ==
    /\ bridge_refs < MaxRefs
    /\ bridge_refs > 0 - MaxRefs

TypeOK ==
    /\ module \in {"unloaded", "loaded", "oops"}
    /\ fwOn \in BOOLEAN /\ onBus \in BOOLEAN /\ driver \in BOOLEAN
    /\ dis_dev \in {NULL, Pdev}
    /\ dis_before_suspend_disabled \in {-1, 0, 1}
    /\ bridge_refs \in Int

Init ==
    /\ module = "unloaded"
    /\ fwOn = TRUE
    /\ onBus = TRUE
    /\ driver \in BOOLEAN
    /\ has_bridge \in BOOLEAN
    /\ fwFaulty = FALSE
    /\ dis_dev = NULL
    /\ dis_handle = NULL
    /\ dis_before_suspend_disabled = 0
    /\ bridge_refs = 0
    /\ last = NoCall
    /\ inflight = NoThreads
    /\ probe = NoProbe

\* insmod: the statics start zeroed; the scan must find the card on the bus
\* (otherwise -ENODEV and nothing is registered).  The _DSM selection that
\* follows the scan is taken to succeed here; the probe it rests on is
\* RunProbe.
ModuleInit ==
    /\ module = "unloaded"
    /\ InBounds
    /\ \E d \in Delays, fwOk \in FwAnswers,
          load_state \in LoadStates :
          LET z == [Enter(d, fwOk) EXCEPT !.dis_dev = NULL, !.dbsd = 0]
              f == pci_get_device(z)
          IN  IF f.onBus
              THEN LET m0 == [f EXCEPT !.dis_dev = Pdev]
                   IN  Return(m0, bbswitch_init(m0, load_state), "init",
                              IF load_state = CARD_ON THEN "ON"
                              ELSE IF load_state = CARD_OFF THEN "OFF"
                              ELSE "other", "loaded")
              ELSE Return(f, [f EXCEPT !.out = "ENODEV"], "init", "other",
                          "unloaded")

ModuleExit ==
    /\ module = "loaded"
    /\ InBounds
    /\ \E d \in Delays, fwOk \in FwAnswers,
          unload_state \in LoadStates :
          LET m0 == Enter(d, fwOk)
          IN  Return(m0, bbswitch_exit(m0, unload_state), "exit",
                     IF unload_state = CARD_ON THEN "ON"
                     ELSE IF unload_state = CARD_OFF THEN "OFF"
                     ELSE "other", "unloaded")

ProcWrite ==
    /\ module = "loaded"
    /\ InBounds
    /\ \E d \in Delays, fwOk \in FwAnswers,
          cmd \in Commands :
          LET m0 == Enter(d, fwOk)
          IN  Return(m0, bbswitch_proc_write(m0, cmd), "write", cmd, "loaded")

ProcShow ==
    /\ module = "loaded"
    /\ InBounds
    /\ \E d \in Delays :
          LET m0 == Enter(d, TRUE)
          IN  Return(m0, bbswitch_proc_show(m0), "show", "", "loaded")

PmNotify ==
    /\ module = "loaded"
    /\ InBounds
    /\ \E d \in Delays, fwOk \in FwAnswers,
          event_type \in PmEvents :
          LET m0 == Enter(d, fwOk)
          IN  Return(m0, bbswitch_pm_handler(m0, event_type), "pm",
                     event_type, "loaded")

\* Another driver (nvidia, nouveau, vfio) binds to or releases the card.
DriverBind ==
    /\ module # "oops"
    /\ onBus /\ ~driver
    /\ driver' = TRUE
    /\ last' = [last EXCEPT !.env = TRUE]
    /\ UNCHANGED << module, fwOn, onBus, has_bridge, fwFaulty, dis_dev,
                    dis_handle, dis_before_suspend_disabled, bridge_refs,
                    probe, inflight >>

DriverUnbind ==
    /\ module # "oops"
    /\ onBus /\ driver
    /\ driver' = FALSE
    /\ last' = [last EXCEPT !.env = TRUE]
    /\ UNCHANGED << module, fwOn, onBus, has_bridge, fwFaulty, dis_dev,
                    dis_handle, dis_before_suspend_disabled, bridge_refs,
                    probe, inflight >>

Next ==
    \/ ModuleInit
    \/ ModuleExit
    \/ ProcWrite
    \/ ProcShow
    \/ PmNotify
    \/ DriverBind
    \/ DriverUnbind

Spec ==
    Init /\ [][Next]_vars

\* The same machine on firmware whose _ON and _OFF evaluations may fail.
InitFw ==
    /\ module = "unloaded"
    /\ fwOn = TRUE
    /\ onBus = TRUE
    /\ driver \in BOOLEAN
    /\ has_bridge \in BOOLEAN
    /\ fwFaulty = TRUE
    /\ dis_dev = NULL
    /\ dis_handle = NULL
    /\ dis_before_suspend_disabled = 0
    /\ bridge_refs = 0
    /\ last = NoCall
    /\ inflight = NoThreads
    /\ probe = NoProbe

SpecFw ==
    InitFw /\ [][Next]_vars

\* Handler calls during which the SGST status method fails to evaluate.
ProcWriteSgstFail ==
    /\ module = "loaded"
    /\ InBounds
    /\ \E d \in Delays, cmd \in Commands :
          LET m0 == EnterSgstFail(d, TRUE)
          IN  Return(m0, bbswitch_proc_write(m0, cmd), "write", cmd, "loaded")

ProcShowSgstFail ==
    /\ module = "loaded"
    /\ InBounds
    /\ \E d \in Delays :
          LET m0 == EnterSgstFail(d, TRUE)
          IN  Return(m0, bbswitch_proc_show(m0), "show", "", "loaded")

PmNotifySgstFail ==
    /\ module = "loaded"
    /\ InBounds
    /\ \E d \in Delays, event_type \in PmEvents :
          LET m0 == EnterSgstFail(d, TRUE)
          IN  Return(m0, bbswitch_pm_handler(m0, event_type), "pm",
                     event_type, "loaded")

NextSgst ==
    \/ Next
    \/ ProcWriteSgstFail
    \/ ProcShowSgstFail
    \/ PmNotifySgstFail

\* Firmware on which every method (_ON, _OFF, SGST) may fail to evaluate.
SpecSgst ==
    InitFw /\ [][NextSgst]_vars

\* The capability probe on its own: a machine whose firmware answers the
\* function-0 query of each handle in some way, probed for each index.
\* A firmware table that implements the UUID u with the answers f and fails
\* the evaluation for the other UUID.
OneUuid(f, u) ==
    [h \in Handles |->
        [x \in Muids |-> IF x = u THEN f[h] ELSE [kind |-> "fail"]]]

InitProbe ==
    /\ module = "unloaded"
    /\ fwOn = TRUE
    /\ onBus = TRUE
    /\ driver = FALSE
    /\ has_bridge = TRUE
    /\ fwFaulty = FALSE
    /\ dis_dev = NULL
    /\ dis_handle \in Handles
    /\ dis_before_suspend_disabled = 0
    /\ bridge_refs = 0
    /\ last = NoCall
    /\ inflight = NoThreads
    /\ \E f \in [Handles -> DsmAnswers], u \in Muids :
          probe = [done |-> FALSE, fw |-> OneUuid(f, u)]

FuncIndexes ==
    0 .. 31

Revisions ==
    {256, 258}

(***************************************************************************)
(* Handler calls in progress at the same time.  No handler takes a lock;   *)
(* a call advances from one access of the shared globals to the next, and  *)
(* another call may run in between.  dis_dev_get and bbswitch_on are taken *)
(* as one step each.                                                       *)
(***************************************************************************)
ConcCommands ==
    {"OFF", "ON", "show"}

\* Bus timing of one step: the card is found at the first lookup or not at
\* all.
ConcDelays ==
    {-1, 0}

\* The globals after a step of thread t, which moves to pc.
Commit(t, m, pc) ==
    /\ module' = IF m.oops THEN "oops" ELSE module
    /\ fwOn' = m.fwOn
    /\ onBus' = m.onBus
    /\ driver' = m.driver
    /\ dis_dev' = m.dis_dev
    /\ dis_before_suspend_disabled' = m.dbsd
    /\ bridge_refs' = m.refs
    /\ inflight' = [inflight EXCEPT ![t].pc = IF m.oops THEN "dead" ELSE pc]
    /\ UNCHANGED << has_bridge, fwFaulty, dis_handle, probe, last >>

\* A process enters bbswitch_proc_write or bbswitch_proc_show.
ConcCall(t) ==
    /\ module = "loaded"
    /\ InBounds
    /\ inflight[t].pc = "idle"
    /\ \E cmd \in ConcCommands :
          inflight' = [inflight EXCEPT ![t] = [pc |-> "get", cmd |-> cmd]]
    /\ UNCHANGED << module, fwOn, onBus, driver, has_bridge, fwFaulty,
                    dis_dev, dis_handle, dis_before_suspend_disabled,
                    bridge_refs, last, probe >>

ConcStep(t) ==
    /\ module = "loaded"
    /\ inflight[t].pc \notin {"idle", "dead"}
    /\ \E d \in ConcDelays :
          LET m0 == Enter(d, TRUE)
              pc == inflight[t].pc
              cmd == inflight[t].cmd
          IN  CASE pc = "get" ->
                     Commit(t, dis_dev_get(m0),
                            IF cmd = "OFF" THEN "off_check"
                            ELSE IF cmd = "ON" THEN "on" ELSE "show")
                [] pc = "off_check" ->
                     LET s == is_card_disabled(m0)
                     IN  Commit(t, s, IF s.ret = 1 THEN "put_check"
                                      ELSE "off_driver")
                [] pc = "off_driver" ->
                     LET r == deref_dis_dev(m0)
                     IN  Commit(t, r, IF r.driver THEN "put_check"
                                      ELSE "off_acpi")
                [] pc = "off_acpi" ->
                     Commit(t, [bbswitch_acpi_off(m0) EXCEPT !.dis_dev = NULL],
                            "put_check")
                [] pc = "on" ->
                     Commit(t, bbswitch_on(m0), "put_check")
                [] pc = "show" ->
                     Commit(t, is_card_disabled(m0), "put_check")
                [] pc = "put_check" ->
                     LET s == is_card_disabled(m0)
                     IN  Commit(t, s, IF s.ret = 0 THEN "put_use" ELSE "idle")
                [] pc = "put_use" ->
                     LET b == bridge_of(m0)
                     IN  Commit(t, IF ~b.oops /\ has_bridge
                                   THEN pm_runtime_put_sync(b) ELSE b,
                                "idle")

NextConc ==
    \/ ModuleInit
    \/ \E t \in Threads : ConcCall(t)
    \/ \E t \in Threads : ConcStep(t)

SpecConc ==
    Init /\ [][NextConc]_vars

\* The display-class and other PCI devices a machine may carry, and the
\* machines: at most MaxDevs devices, no ACPI handle shared by two of them.
PciDevices ==
    [ class : {"PCI_CLASS_DISPLAY_VGA", "PCI_CLASS_DISPLAY_3D", "other"},
      vendor : {"PCI_VENDOR_ID_INTEL", "other"},
      handle : Handles \cup {NULL} ]

MaxDevs == 2

Machines ==
    { devs \in UNION { [1 .. n -> PciDevices] : n \in 0 .. MaxDevs } :
        \A i, j \in DOMAIN devs :
            (i # j /\ devs[i].handle # NULL) =>
                devs[i].handle # devs[j].handle }

\* Function-0 answers that decide the probes: a failed evaluation, a mask
\* with no function but 0, and a mask with functions 0, 3 and 26.
KeyAnswers ==
    { [kind |-> "fail"], IntObj(0, 0, 1), IntObj(0, 1024, 9) }

InitScan ==
    /\ module = "unloaded"
    /\ fwOn = TRUE
    /\ onBus = TRUE
    /\ driver = FALSE
    /\ has_bridge = TRUE
    /\ fwFaulty = FALSE
    /\ dis_dev = NULL
    /\ dis_handle = NULL
    /\ dis_before_suspend_disabled = 0
    /\ bridge_refs = 0
    /\ last = NoCall
    /\ inflight = NoThreads
    /\ \E f \in [Handles -> [Muids -> KeyAnswers]], devs \in Machines,
          skip \in BOOLEAN :
          probe = [ scanned |-> FALSE, fw |-> f, devs |-> devs,
                    skip_optimus_dsm |-> skip ]

ScanInit ==
    /\ ~probe.scanned
    /\ \E procOk \in BOOLEAN :
          LET r == bbswitch_init_probe(probe.devs, probe.skip_optimus_dsm,
                                       procOk)
          IN  /\ probe' = [ scanned |-> TRUE, fw |-> probe.fw,
                            devs |-> probe.devs,
                            skip_optimus_dsm |-> probe.skip_optimus_dsm,
                            procOk |-> procOk,
                            scan_handle |-> r.scan_handle,
                            igd_handle |-> r.igd_handle,
                            dsm_type |-> r.dsm_type, ret |-> r.ret,
                            proc_entry |-> r.proc_entry ]
              /\ dis_dev' = r.dis_dev
              /\ dis_handle' = r.dis_handle
    /\ UNCHANGED << module, fwOn, onBus, driver, has_bridge, fwFaulty,
                    dis_before_suspend_disabled, bridge_refs, last,
                    inflight >>

NextScan ==
    ScanInit

SpecScan ==
    InitScan /\ [][NextScan]_vars

\* Values the caller's result slot may hold before a call.
Slots ==
    {U32(0, 0), U32(43690, 21845)}

InitCall ==
    /\ module = "unloaded"
    /\ fwOn = TRUE
    /\ onBus = TRUE
    /\ driver = FALSE
    /\ has_bridge = TRUE
    /\ fwFaulty = FALSE
    /\ dis_dev = NULL
    /\ dis_handle \in Handles
    /\ dis_before_suspend_disabled = 0
    /\ bridge_refs = 0
    /\ last = NoCall
    /\ inflight = NoThreads
    /\ \E f \in [Handles -> DsmAnswers], u \in Muids :
          probe = [called |-> FALSE, fw |-> OneUuid(f, u)]

CallDsm ==
    /\ ~probe.called
    /\ \E handle \in Handles, muid \in Muids, revid \in Revisions,
          func \in {0, OptimusFunc}, slot \in Slots :
          probe' = [ called |-> TRUE, fw |-> probe.fw,
                     handle |-> handle, muid |-> muid, revid |-> revid,
                     func |-> func, slot |-> slot,
                     obj |-> acpi_evaluate_dsm(handle, muid, revid, func),
                     ret |-> acpi_call_dsm(handle, muid, revid, func,
                                           <<>>, slot) ]
    /\ UNCHANGED << module, fwOn, onBus, driver, has_bridge, fwFaulty,
                    dis_dev, dis_handle, dis_before_suspend_disabled,
                    bridge_refs, last, inflight >>

NextCall ==
    CallDsm

SpecCall ==
    InitCall /\ [][NextCall]_vars

RunProbe ==
    /\ ~probe.done
    /\ \E handle \in Handles, muid \in Muids, revid \in Revisions,
          sfnc \in FuncIndexes :
          probe' = [ done |-> TRUE, fw |-> probe.fw,
                     handle |-> handle, muid |-> muid, revid |-> revid,
                     sfnc |-> sfnc,
                     has |-> has_dsm_func(muid, revid, sfnc),
                     handle_has |->
                         handle_has_dsm_func(handle, muid, revid, sfnc) ]
    /\ UNCHANGED << module, fwOn, onBus, driver, has_bridge, fwFaulty,
                    dis_dev, dis_handle, dis_before_suspend_disabled,
                    bridge_refs, last, inflight >>

NextProbe ==
    RunProbe

SpecProbe ==
    InitProbe /\ [][NextProbe]_vars

\* What a read of /proc/acpi/bbswitch issued in the current state reports,
\* for each way the bus may answer during it.
ReadNow ==
    { bbswitch_proc_show(Enter(d, TRUE)).out : d \in Delays }

(***************************************************************************)
(* Properties.                                                             *)
(***************************************************************************)

\* C1: null-reference safety.  No handler call, whatever the firmware and
\* the bus answered, reads through dis_dev while it is NULL; in particular
\* not bbswitch_off when the status query is indeterminate (-1).
C1_NullSafe ==
    ~last.oops

\* The off-transition of the last call saw the card on with a driver bound.
Refused ==
    last.offInvoked /\ last.offStatus = 0 /\ last.offDriver

\* C2: refusal invariant.  When bbswitch_off runs (from a write of OFF, a
\* post-resume event, init or exit) with the card on and a driver bound to
\* dis_dev, _OFF is not evaluated, dis_dev is kept, the status query still
\* returns on, and a read reports ON.
C2_Refusal ==
    Refused =>
        /\ last.offCalls = 0
        /\ ~last.oops
        /\ dis_dev = Pdev
        /\ last.post = 0
        /\ ReadNow = {"ON"}

C2_Witness ==
    /\ Refused
    /\ last.op = "write" /\ last.arg = "OFF"
    /\ last.pre = 0 /\ last.post = 0

\* The last call was a write of OFF that found the card on with no driver
\* bound and whose _OFF evaluation took effect.
PoweredOff ==
    /\ last.op = "write" /\ last.arg = "OFF"
    /\ last.pre = 0
    /\ last.offInvoked /\ last.offStatus = 0 /\ ~last.offDriver
    /\ last.fwOk

\* C3: status consistency after power-off.  After a write of OFF on a card
\* that was on with no driver bound, and whose _OFF succeeded, dis_dev is
\* NULL, the status query returns off (1) and a read reports OFF.
C3_OffConsistent ==
    PoweredOff =>
        /\ last.offCalls = 1
        /\ dis_dev = NULL
        /\ last.post = 1
        /\ ReadNow = {"OFF"}

C3_Witness ==
    PoweredOff /\ dis_dev = NULL /\ ~fwOn

\* C4: suspend/resume symmetry.  A suspend-prepare event entered with
\* status on (0) or off (1), followed at once by a post-resume event, leaves
\* the status it started from.
C4_Symmetry ==
    [][ ( /\ last.op = "pm" /\ last.arg \in PrepareEvents
          /\ ~last.env /\ last.pre \in {0, 1}
          /\ last'.op = "pm" /\ last'.arg \in PostEvents )
        => last'.post = last.pre ]_vars

\* C5: the bridge reference count never underflows: the module never made
\* more pm_runtime_put_sync calls than pm_runtime_get_sync calls.
C5_NoUnderflow ==
    bridge_refs >= 0

\* A call that released a bridge reference it had not itself acquired.
C5_Witness ==
    /\ last.puts = 1 /\ last.gets = 0
    /\ bridge_refs = 0

\* C6: acquire/release pairing per call.  Every handler call releases as
\* many bridge references as it acquired.
C6_PairedPerCall ==
    last.gets = last.puts

\* Bus behaviours that do not change between two invocations: the card
\* enumerates as soon as firmware has it powered, or not at all.
Steady ==
    {-1, 0}

\* C7: idempotence.  From every state the loaded module can be in, a second
\* off-transition (on-transition) right after a first one leaves the status
\* of the first and evaluates no firmware power method.
C7_Idempotent ==
    module = "loaded" =>
        \A d \in Steady :
            LET m0 == Enter(d, TRUE)
                f1 == bbswitch_off(m0)
                f2 == bbswitch_off(f1)
                n1 == bbswitch_on(m0)
                n2 == bbswitch_on(n1)
            IN  /\ ~f1.oops /\ ~f2.oops
                /\ StatusOf(f2) = StatusOf(f1)
                /\ f2.offCalls = f1.offCalls /\ f2.onCalls = f1.onCalls
                /\ ~n1.oops /\ ~n2.oops
                /\ StatusOf(n2) = StatusOf(n1)
                /\ n2.offCalls = n1.offCalls /\ n2.onCalls = n1.onCalls

\* C8: bounded retry.  When bbswitch_on finds the card off and the card never
\* shows up on the bus, it polls exactly 5 times, leaves dis_dev NULL, and
\* the next status query returns indeterminate (-1).
C8_BoundedRetry ==
    (last.onInvoked /\ last.onStatus = 1 /\ last.delay = -1) =>
        /\ last.onCalls = 1
        /\ last.polls = 5
        /\ dis_dev = NULL
        /\ last.post = -1

C8_Witness ==
    /\ last.onInvoked /\ last.onStatus = 1 /\ last.delay = -1
    /\ last.polls = 5 /\ fwOn /\ ~onBus

\* C9: power-on scenario.  A write of ON on a card that is off evaluates _ON
\* once; if the card enumerates at the first or second poll the loop stops
\* at that poll, dis_dev is set again, the status query returns on (0) and
\* a read reports ON.
C9_PowerOn ==
    (last.op = "write" /\ last.arg = "ON" /\ last.pre = 1
        /\ last.delay \in {0, 1}) =>
        /\ last.onCalls = 1
        /\ last.polls = last.delay + 1
        /\ dis_dev = Pdev
        /\ last.post = 0
        /\ ReadNow = {"ON"}

C9_Witness ==
    /\ last.op = "write" /\ last.arg = "ON" /\ last.pre = 1
    /\ last.delay = 1 /\ last.polls = 2 /\ dis_dev = Pdev

\* Bit i of the mask a firmware answer carries: an integer, or a buffer of
\* exactly 4 bytes read little-endian; any other answer carries no mask.
MaskBit(obj, i) ==
    IF obj.kind = "int"
    THEN IF i < 16 THEN (obj.lo \div (2 ^ i)) % 2 = 1
         ELSE (obj.hi \div (2 ^ (i - 16))) % 2 = 1
    ELSE IF obj.kind = "buf" /\ Len(obj.bytes) = 4
    THEN (obj.bytes[(i \div 8) + 1] \div (2 ^ (i % 8))) % 2 = 1
    ELSE FALSE

Supported(obj, i) ==
    obj.kind # "fail" /\ MaskBit(obj, 0) /\ MaskBit(obj, i)

\* C10: capability probe.  has_dsm_func and handle_has_dsm_func return 0
\* when the function-0 evaluation fails, otherwise 1 exactly when bit 0 and
\* bit sfnc of the returned mask are set; both agree when handle_has_dsm_func
\* is given dis_handle.
C10_Probe ==
    probe.done =>
        /\ probe.handle_has \in {0, 1} /\ probe.has \in {0, 1}
        /\ probe.handle_has = 1
              <=> Supported(probe.fw[probe.handle][probe.muid], probe.sfnc)
        /\ probe.has = 1
              <=> Supported(probe.fw[dis_handle][probe.muid], probe.sfnc)
        /\ probe.handle = dis_handle => probe.has = probe.handle_has

C10_Witness ==
    /\ probe.done
    /\ probe.sfnc = 26 /\ probe.handle = dis_handle
    /\ probe.fw[probe.handle][probe.muid] = BufObj(<<1, 0, 0, 4>>)
    /\ probe.has = 1 /\ probe.handle_has = 1

\* A firmware method evaluated by the last call failed.
FirmwareFailed ==
    \/ ~last.fwOk /\ last.offCalls + last.onCalls > 0
    \/ ~last.sgstOk /\ last.sgstCalls > 0

\* C11: a firmware call failure is never fatal.  A call in which SGST, _ON
\* or _OFF failed to evaluate completes without reading an invalid result,
\* has logged a warning, and the next status query answers from firmware.
C11_FailureNotFatal ==
    FirmwareFailed =>
        /\ ~last.oops
        /\ last.warns > 0
        /\ last.post \in {-1, 0, 1}
        /\ (last.post = 1) <=> ~fwOn

\* The step is a call of the PM notifier with an event of the set E.
PmStep(E) ==
    last'.op = "pm" /\ last'.arg \in E /\ ~last'.env

\* The step took no bridge reference, evaluated no power method and left
\* the module's state and the card as they were.
Untouched ==
    /\ last'.offCalls = 0 /\ last'.onCalls = 0
    /\ last'.gets = 0 /\ last'.puts = 0
    /\ UNCHANGED << module, fwOn, onBus, driver, dis_dev,
                    dis_before_suspend_disabled, bridge_refs >>

\* C12: post-resume acts only on an 'off' memory.  A post-resume event runs
\* the off-transition exactly when dis_before_suspend_disabled records off
\* (1); when it records on (0) or indeterminate (-1) the handler evaluates
\* no firmware method, takes no bridge reference and changes nothing.
C12_PostResumeOnlyOff ==
    [][ PmStep(PostEvents) =>
          /\ last'.offInvoked <=> dis_before_suspend_disabled = 1
          /\ dis_before_suspend_disabled # 1 => Untouched ]_vars

\* C13: Suspend Memory is used only for its matching pair.  A post-resume
\* event with no suspend-prepare since the previous post-resume event does
\* not run the off-transition and leaves the power state alone.
C13_MatchingPairOnly ==
    [][ (PmStep(PostEvents) /\ ~last.armed) =>
          /\ ~last'.offInvoked
          /\ last'.offCalls = 0 /\ last'.onCalls = 0
          /\ fwOn' = fwOn ]_vars

\* C14: suspend-prepare forces the card on only if it was off.  The handler
\* records a status in dis_before_suspend_disabled and evaluates _ON exactly
\* when the recorded status is off (1); with the card on and dis_dev set it
\* evaluates no power method and dis_dev and the firmware state stay.
C14_PrepareForcesOnIfOff ==
    [][ PmStep(PrepareEvents) =>
          /\ dis_before_suspend_disabled' \in {-1, 0, 1}
          /\ (dis_before_suspend_disabled' = 1) <=> ~fwOn
          /\ last'.onCalls = (IF dis_before_suspend_disabled' = 1
                              THEN 1 ELSE 0)
          /\ last'.offCalls = 0
          /\ (fwOn /\ dis_dev = Pdev) =>
                /\ dis_before_suspend_disabled' = 0
                /\ dis_dev' = dis_dev /\ fwOn' = fwOn /\ onBus' = onBus ]_vars

C14_Witness ==
    /\ last.op = "pm" /\ last.arg \in PrepareEvents /\ ~last.env
    /\ last.pre = 1 /\ dis_before_suspend_disabled = 1
    /\ last.onCalls = 1 /\ fwOn /\ dis_dev = Pdev

\* C15: restore-prepare is a no-op.  PM_RESTORE_PREPARE leaves Suspend
\* Memory, dis_dev, the bridge reference count and the firmware state as
\* they were and evaluates no firmware method.
C15_RestorePrepareNoOp ==
    [][ PmStep({"PM_RESTORE_PREPARE"}) =>
          Untouched /\ last'.sgstCalls = 0 ]_vars

C15_Witness ==
    /\ last.op = "pm" /\ last.arg = "PM_RESTORE_PREPARE" /\ ~last.env
    /\ dis_before_suspend_disabled = 1 /\ ~fwOn /\ bridge_refs = 1

\* C20: tri-state status in a read.  A read prints OFF exactly when the
\* status query returns off, prints ON for on and for indeterminate, and
\* evaluates neither _ON nor _OFF.
C20_ReadReport ==
    [][ (last'.op = "show" /\ ~last'.env) =>
          /\ (last'.out = "OFF") <=> ~fwOn
          /\ (last'.out = "ON") <=> fwOn
          /\ last'.post = 1 => last'.out = "OFF"
          /\ last'.post \in {-1, 0} => last'.out = "ON"
          /\ last'.offCalls = 0 /\ last'.onCalls = 0
          /\ fwOn' = fwOn ]_vars

\* A read of a card that firmware reports on but that is not on the bus.
C20_Witness ==
    /\ last.op = "show" /\ ~last.env
    /\ last.out = "ON" /\ last.post = -1 /\ dis_dev = NULL

\* The call belongs to an off period opened by a write of OFF that found the
\* card on and powered it off behind a bridge; last.base is the count
\* before that write.
OffPeriod ==
    has_bridge /\ ~last.env /\ last.base # NoStatus

\* C19: bridge reference round trip.  A write of OFF that powers the card
\* off leaves one reference more than before it, reads while the card is off
\* leave the count alone, and the write of ON after which the card is back
\* within the poll window returns the count to its value before the OFF.
C19_RoundTrip ==
    OffPeriod =>
        /\ (last.op = "write" /\ last.arg = "OFF") =>
              bridge_refs = last.base + 1
        /\ last.op = "show" =>
              bridge_refs = last.base + 1 /\ last.gets = 0 /\ last.puts = 0
        /\ (last.op = "write" /\ last.arg = "ON"
                /\ last.delay \in 0 .. OnPollLimit) =>
              /\ bridge_refs = last.base
              /\ last.gets = 0 /\ last.puts = 1

C19_Witness ==
    /\ OffPeriod /\ last.op = "write" /\ last.arg = "ON"
    /\ last.delay = OnPollLimit /\ last.base = 0 /\ bridge_refs = 0
    /\ last.post = 0

\* Bit i (0..31) of a 32-bit value.
U32Bit(u, i) ==
    IF i < 16 THEN (u.lo \div (2 ^ i)) % 2 = 1
    ELSE (u.hi \div (2 ^ (i - 16))) % 2 = 1

\* The slot holds bits 0..31 of the object: of an integer its low 32 bits,
\* of a 4-byte buffer byte k in bits 8k..8k+7.
SlotHolds(u, obj) ==
    \A i \in 0 .. 31 : U32Bit(u, i) <=> MaskBit(obj, i)

\* C17: result handling of acpi_call_dsm.  A failed evaluation returns
\* non-zero and leaves the slot as it was; a successful one returns 0 and
\* writes the slot with the integer result (as uint32_t) or with the
\* little-endian decoding of a buffer of exactly 4 bytes, and leaves the
\* slot as it was for every other result.
C17_ResultHandling ==
    probe.called =>
        LET obj == probe.obj
            written == \/ obj.kind = "int"
                       \/ obj.kind = "buf" /\ Len(obj.bytes) = 4
        IN  /\ (probe.ret.err # 0) <=> obj.kind = "fail"
            /\ probe.func = 0 =>
                  obj = probe.fw[probe.handle][probe.muid]
            /\ written => SlotHolds(probe.ret.result, obj)
            /\ (obj.kind = "int" /\ obj.top = 0) =>
                  probe.ret.result = U32(obj.hi, obj.lo)
            /\ ~written => probe.ret.result = probe.slot

\* A 4-byte buffer decoded over a slot that held something else.
C17_Witness ==
    /\ probe.called
    /\ probe.obj = BufObj(<<1, 0, 0, 4>>)
    /\ probe.slot = U32(43690, 21845)
    /\ probe.ret = [err |-> 0, result |-> U32(1024, 1)]

\* C16: resolution of the firmware interface.  With a discrete card found,
\* initialisation selects Optimus iff Optimus probing is not skipped and
\* function 0x1A of revision 0x100 is supported on the card's handle;
\* otherwise legacy nVidia on that handle if function 3 of revision 0x102 is
\* supported there; otherwise legacy nVidia on the integrated handle if there
\* is one and the function is supported there.  It returns -ENODEV, creating
\* no /proc entry, exactly when no discrete card was found or none of the
\* three probes succeeds.
C16_Resolution ==
    probe.scanned =>
        LET found == dis_dev # NULL
            dh == probe.scan_handle
            ig == probe.igd_handle
            opt == /\ ~probe.skip_optimus_dsm
                   /\ Supported(probe.fw[dh][Optimus], OptimusFunc)
            nvd == Supported(probe.fw[dh][Nvidia], NvidiaFunc)
            nvi == ig # NULL /\ Supported(probe.fw[ig][Nvidia], NvidiaFunc)
        IN  /\ found =>
                /\ dh \in Handles /\ ig # dh
                /\ (probe.dsm_type = DSM_TYPE_OPTIMUS /\ dis_handle = dh)
                      <=> opt
                /\ (probe.dsm_type = DSM_TYPE_NVIDIA /\ dis_handle = dh)
                      <=> (~opt /\ nvd)
                /\ (probe.dsm_type = DSM_TYPE_NVIDIA /\ dis_handle = ig)
                      <=> (~opt /\ ~nvd /\ nvi)
                /\ (probe.ret = 0 - ENODEV) <=> ~(opt \/ nvd \/ nvi)
            /\ ~found =>
                  probe.ret = 0 - ENODEV
                      /\ probe.dsm_type = DSM_TYPE_UNSUPPORTED
            /\ probe.ret = 0 - ENODEV => ~probe.proc_entry
            /\ probe.proc_entry <=> probe.ret = 0
            /\ probe.ret = 0 => probe.dsm_type # DSM_TYPE_UNSUPPORTED

\* Legacy nVidia selected on the integrated handle.
C16_Witness ==
    /\ probe.scanned /\ probe.ret = 0 /\ probe.proc_entry
    /\ probe.dsm_type = DSM_TYPE_NVIDIA
    /\ dis_handle = probe.igd_handle /\ dis_handle # probe.scan_handle

InFlight ==
    { t \in Threads : inflight[t].pc # "idle" }

\* C18: operations are serialized.  At most one handler call is in
\* progress at any time, and a call that has seen status 0 in dis_dev_put
\* still finds dis_dev set when it reads dis_dev->bus.
C18_Serialized ==
    /\ Cardinality(InFlight) <= 1
    /\ \A t \in Threads : inflight[t].pc = "put_use" => dis_dev # NULL

====
